---------------------------- MODULE Spec2Model ----------------------------
(***************************************************************************)
(* webchanges: the worker that runs jobs (worker.py, run_jobs and its      *)
(* nested job_runner), the snapshot store and the JobState it drives, and  *)
(* the command-line helpers of cli.py.                                     *)
(*                                                                         *)
(* worker.py and cli.py are modelled from their source.  JobState          *)
(* (handler.py), the report (reporters.py) and the snapshot store          *)
(* (storage.py) are modelled from the design document.                     *)
(***************************************************************************)
EXTENDS Integers, Sequences, FiniteSets, TLC

(***************************************************************************)
(* Bounds of the model.                                                    *)
(***************************************************************************)
MaxRuns == 3          \* number of run_jobs calls explored
MaxSets == 1          \* number of direct store rewrites (delete + save) explored

(***************************************************************************)
(* Data.  A snapshot's data is a string; strings are sequences of the      *)
(* characters 1 ("a") and 2 ("b").  "" is <<>>.                            *)
(***************************************************************************)
Strings == { <<>>, <<1>>, <<2>>, <<1, 2>> }

Etags == { "W" }

Null == "None"

\* Python's str ordering (lexicographic by character, a prefix is smaller)
RECURSIVE StrLess(_, _)
StrLess(a, b) ==
    IF b = <<>> THEN FALSE
    ELSE IF a = <<>> THEN TRUE
    ELSE IF Head(a) # Head(b) THEN Head(a) < Head(b)
    ELSE StrLess(Tail(a), Tail(b))

Min2(x, y) == IF x <= y THEN x ELSE y

Max2(x, y) == IF x >= y THEN x ELSE y

\* length of the common run of a[i..] and b[j..]
RECURSIVE RunLen(_, _, _, _)
RunLen(a, b, i, j) ==
    IF i > Len(a) \/ j > Len(b) \/ a[i] # b[j] THEN 0
    ELSE 1 + RunLen(a, b, i + 1, j + 1)

\* the matching blocks <<i, j, k>>: a[i..i+k-1] = b[j..j+k-1], k > 0 maximal
Blocks(a, b) ==
    { c \in { <<p[1], p[2], RunLen(a, b, p[1], p[2])>> : p \in (1..Len(a)) \X (1..Len(b)) } :
        c[3] > 0 }

\* c is the longer block, or as long and earlier in a, or also earlier in b
BetterBlock(c, d) ==
    \/ c[3] > d[3]
    \/ c[3] = d[3] /\ c[1] < d[1]
    \/ c[3] = d[3] /\ c[1] = d[1] /\ c[2] <= d[2]

BestBlock(blocks) ==
    IF blocks = {} THEN <<0, 0, 0>>
    ELSE CHOOSE c \in blocks : \A d \in blocks : BetterBlock(c, d)

\* difflib.SequenceMatcher.find_longest_match: the longest matching block,
\* of those the one starting earliest in a, of those earliest in b
LongestMatch(a, b) == BestBlock(Blocks(a, b))

\* difflib.SequenceMatcher.get_matching_blocks: the total size of the blocks,
\* the longest one m and those to its left and to its right
RECURSIVE Matches(_, _)
MatchesAround(a, b, m) ==
    IF m[3] = 0 THEN 0
    ELSE m[3]
         + Matches(SubSeq(a, 1, m[1] - 1), SubSeq(b, 1, m[2] - 1))
         + Matches(SubSeq(a, m[1] + m[3], Len(a)), SubSeq(b, m[2] + m[3], Len(b)))

Matches(a, b) == MatchesAround(a, b, LongestMatch(a, b))

\* difflib ratio 2*M/T as the pair <<numerator, denominator>>; 1.0 when T = 0
Ratio(a, b) ==
    IF Len(a) + Len(b) = 0 THEN <<1, 1>>
    ELSE <<2 * Matches(a, b), Len(a) + Len(b)>>

\* r1 < r2 for ratios
RatioLess(r1, r2) == r1[1] * r2[2] < r2[1] * r1[2]

\* difflib.get_close_matches' default cutoff, 0.6, as CutoffNum / CutoffDen
CutoffNum == 6

CutoffDen == 10

AboveCutoff(r) == r[1] * CutoffDen >= CutoffNum * r[2]


(***************************************************************************)
(* Snapshots and the snapshot store.                                       *)
(***************************************************************************)
Guids == { "g1", "g2", "g3" }

MaxSnapshots == 3     \* the store's retention limit (max_snapshots)

Snap(d, ts, t, e) == [data |-> d, timestamp |-> ts, tries |-> t, etag |-> e]

\* what load returns for a fingerprint without snapshots
ZeroSnapshot == Snap(<<>>, 0, 0, "")

VARIABLES
    fs,                  \* the files that exist: a function from their paths to their contents
    command_config,      \* main()'s CommandConfig: [database_engine, cache, max_snapshots,
                         \* config], the cache location as the pieces of its text
    cache_storage,       \* the snapshot store as main() made it: [engine, configured,
                         \* max_snapshots], command_config.max_snapshots and the limit
                         \* the store was given (0: none)
    jobs,                \* urlwatcher.jobs: sequence of [guid, max_tries, is_browser]
    fetchable,           \* the data the monitored sources may return
    joblist,             \* urlwatch_config.joblist; <<>> is None
    db,                  \* committed snapshots: guid -> sequence, oldest first
    temp,                \* staged saves: sequence of [guid, snap], oldest first
    report,              \* report.job_states: sequence of [index, verb]
    new_release_future,  \* report.new_release_future: Null, "queued", "running", "done"
    pc,                  \* where the caller is: in main() ("main", "migrated", "located",
                         \* "RuntimeError", "NotImplementedError"), "idle",
                         \* in run_jobs ("phase1", "phase2"),
                         \* after it ("returned", "IndexError", "ImportError"), "committed",
                         \* after a store command ("deleted", "nothing", "gc")
    now,                 \* the clock: it ticks when a run_jobs call starts its jobs
    job_state,           \* the JobState of each job of this run, or NoJobState
    todo,                \* jobs of the phase whose result executor.map has not yielded yet
    pool,                \* this run_jobs call: [configured, size, future, virt_mem,
                         \* cpu_count], the configured
                         \* max_workers (0 is None), the size of the phase's executor
                         \* (0: Python's default), whether it holds the version check,
                         \* and what the probes returned to the browser phase
    runBase,             \* the length of report when the last run_jobs call started its jobs
    nsets                \* number of direct store rewrites so far

vars == << fs, command_config, cache_storage, jobs, fetchable, joblist, db, temp, report,
           new_release_future,
           pc, now, job_state, todo, pool, runBase, nsets >>

\* CacheStorage.load: the most recent snapshot, or the zero tuple
Load(store, guid) ==
    IF store[guid] = <<>> THEN ZeroSnapshot ELSE store[guid][Len(store[guid])]

\* CacheStorage.get_history_data: the snapshots most recent first, one per
\* content (the most recent one with that content)
RECURSIVE Dedup(_, _)
Dedup(hist, seen) ==
    IF hist = <<>> THEN <<>>
    ELSE LET s == hist[Len(hist)]
             rest == SubSeq(hist, 1, Len(hist) - 1)
         IN  IF s.data \in seen THEN Dedup(rest, seen)
             ELSE <<s>> \o Dedup(rest, seen \cup {s.data})

GetHistoryData(store, guid) == Dedup(store[guid], {})

HistoryKeys(h) == { h[i].data : i \in 1..Len(h) }

\* history_dic_snapshots[data]
HistoryAt(h, d) == h[CHOOSE i \in 1..Len(h) : h[i].data = d]

\* CacheStorage.save: a staged write
Save(t, guid, snap) == Append(t, [guid |-> guid, snap |-> snap])

\* as Trim, but the most recent snapshots are evicted
TrimNewest(hist, limit) ==
    IF limit > 0 /\ Len(hist) > limit
    THEN SubSeq(hist, 1, limit)
    ELSE hist

\* the retention limit, when the store has one: the oldest snapshots are evicted
Trim(hist, limit) ==
    IF limit > 0 /\ Len(hist) > limit
    THEN SubSeq(hist, Len(hist) - limit + 1, Len(hist))
    ELSE hist

RECURSIVE ApplyStaged(_, _)
ApplyStaged(store, t) ==
    IF t = <<>> THEN store
    ELSE ApplyStaged([store EXCEPT ![Head(t).guid] = Append(@, Head(t).snap)], Tail(t))

\* CacheStorage.commit: the staged writes become visible, then retention
CommitStore(store, t, limit) == [g \in Guids |-> Trim(ApplyStaged(store, t)[g], limit)]


(***************************************************************************)
(* JobState (handler.py): load, process, save.                             *)
(***************************************************************************)
Verbs == { "new", "unchanged", "changed", "error" }

\* no JobState was made for the job in this run
NoJobState == [st |-> "none"]

\* JobState.__init__ followed by the state executor.map leaves it in: queued
NewJobState(guid) ==
    [ guid |-> guid, st |-> "pending",
      old_data |-> <<>>, old_timestamp |-> 0, old_etag |-> "", tries |-> 0,
      history_dic_snapshots |-> <<>>,
      new_data |-> <<>>, new_timestamp |-> 0, new_etag |-> "",
      exception |-> Null, error_ignored |-> FALSE,
      verb |-> Null, loaded |-> ZeroSnapshot ]

\* JobState.load: the old snapshot and the history, from the committed store
JobStateLoad(js, store) ==
    LET s == Load(store, js.guid)
    IN  [js EXCEPT !.st = "running",
                   !.old_data = s.data, !.old_timestamp = s.timestamp,
                   !.old_etag = s.etag, !.tries = s.tries,
                   !.history_dic_snapshots = GetHistoryData(store, js.guid),
                   !.loaded = s]

\* JobState.process, the fetch succeeded with (data, etag) at time ts
ProcessOk(js, data, etag, ts) ==
    [js EXCEPT !.st = "done", !.new_data = data, !.new_etag = etag, !.new_timestamp = ts]

\* JobState.process, the fetch raised exc; a failure that is neither ignored
\* nor a not-modified signal counts one more try
ProcessRaised(js, exc, ignored, ts) ==
    [js EXCEPT !.st = "done", !.exception = exc, !.error_ignored = ignored,
               !.new_timestamp = ts,
               !.tries = IF ignored \/ exc = "NotModifiedError" THEN @ ELSE @ + 1]

\* JobState.save: with use_old_data the old data, timestamp and etag are saved
JobStateSave(js, use_old_data) ==
    IF use_old_data
    THEN [js EXCEPT !.new_data = js.old_data, !.new_timestamp = js.old_timestamp,
                    !.new_etag = js.old_etag]
    ELSE js

SavedSnap(js) == Snap(js.new_data, js.new_timestamp, js.tries, js.new_etag)


(***************************************************************************)
(* The classification of one result (worker.py, job_runner's loop body).   *)
(***************************************************************************)
\* max_tries = 0 if not job.max_tries else job.max_tries (-1 is None)
MaxTriesOf(job) == IF job.max_tries = -1 \/ job.max_tries = 0 THEN 0 ELSE job.max_tries

\* as ErrorSuppressed, but with <= for <
ErrorSuppressedLeq(js, max_tries) == js.tries <= max_tries

\* elif job_state.tries < max_tries: the error is not reported yet
ErrorSuppressed(js, max_tries) == js.tries < max_tries

\* as HasSnapshots, but with == for != on the timestamp
HasSnapshotsTsZero(js) == js.old_data # <<>> \/ js.old_timestamp = 0

\* elif job_state.old_data or job_state.old_timestamp != 0: "we have snapshots"
HasSnapshots(js) == js.old_data # <<>> \/ js.old_timestamp # 0

\* as ExactMatch, but only the latest snapshot is compared
ExactMatchLatestOnly(js) == js.new_data = js.old_data

\* new_data == old_data or new_data in history_dic_snapshots.keys()
ExactMatch(js) ==
    \/ js.new_data = js.old_data
    \/ js.new_data \in HistoryKeys(js.history_dic_snapshots)

\* (rx, x) < (ry, y), the order heapq.nlargest takes the largest of
ScoredLess(rx, x, ry, y) ==
    \/ RatioLess(rx, ry)
    \/ rx[1] * ry[2] = ry[1] * rx[2] /\ StrLess(x, y)

BestKey(word, good) ==
    IF good = {} THEN <<>>
    ELSE << CHOOSE x \in good :
                \A y \in good : y = x \/ ScoredLess(Ratio(y, word), y, Ratio(x, word), x) >>

\* difflib.get_close_matches(word, keys, n=1): the best key scoring at least
\* the cutoff, as a list of at most one element
CloseMatches(word, keys) == BestKey(word, { x \in keys : AboveCutoff(Ratio(x, word)) })

\* the old snapshot becomes the close match cm[0], if there is one
WithBaseline(js, h, cm) ==
    IF Len(h) > 1 /\ cm # <<>>
    THEN [js EXCEPT !.old_data = cm[1],
                    !.old_timestamp = HistoryAt(h, cm[1]).timestamp,
                    !.old_etag = HistoryAt(h, cm[1]).etag]
    ELSE js

\* if len(history_dic_snapshots) > 1: diff against the closest match, if any
FuzzyBaseline(js) ==
    WithBaseline(js, js.history_dic_snapshots,
                 CloseMatches(js.new_data, HistoryKeys(js.history_dic_snapshots)))

\* Each branch gives [js, save, verb]: the JobState afterwards, whether
\* job_state.save was called, and the report method called (or Null).

\* as OnIgnored, but the ignored error is reported
OnIgnoredReports(js) == [js |-> js, save |-> FALSE, verb |-> "error"]

\* the error is ignored: nothing is saved, nothing is reported
OnIgnored(js) == [js |-> js, save |-> FALSE, verb |-> Null]

\* as OnNotModified, but tries is not reset before the save
OnNotModifiedNoReset(js) ==
    IF js.tries > 0
    THEN [js |-> JobStateSave(js, TRUE), save |-> TRUE, verb |-> "unchanged"]
    ELSE [js |-> js, save |-> FALSE, verb |-> "unchanged"]

\* 304: tries is reset and the old data saved if tries > 0; report.unchanged
OnNotModified(js) ==
    IF js.tries > 0
    THEN [js |-> JobStateSave([js EXCEPT !.tries = 0], TRUE), save |-> TRUE,
          verb |-> "unchanged"]
    ELSE [js |-> js, save |-> FALSE, verb |-> "unchanged"]

\* as OnSuppressed, but the tries are not saved
OnSuppressedNoSave(js) == [js |-> js, save |-> FALSE, verb |-> Null]

\* the error is suppressed: save(use_old_data=True), no report
OnSuppressed(js) == [js |-> JobStateSave(js, TRUE), save |-> TRUE, verb |-> Null]

\* as OnError, but save() is called without use_old_data
OnErrorSavesNew(js) == [js |-> JobStateSave(js, FALSE), save |-> TRUE, verb |-> "error"]

\* as OnError, but report.error is not called
OnErrorNoReport(js) == [js |-> JobStateSave(js, TRUE), save |-> TRUE, verb |-> Null]

\* the error is reported: save(use_old_data=True), report.error
OnError(js) == [js |-> JobStateSave(js, TRUE), save |-> TRUE, verb |-> "error"]

\* as OnUnchanged, but tries is never reset
OnUnchangedNoReset(js) == [js |-> js, save |-> FALSE, verb |-> "unchanged"]

\* as OnUnchanged, but the result is saved whatever the tries
OnUnchangedAlwaysSaves(js) ==
    [js |-> JobStateSave([js EXCEPT !.tries = 0], FALSE), save |-> TRUE, verb |-> "unchanged"]

\* exact match: tries is reset and the result saved if tries > 0; report.unchanged
OnUnchanged(js) ==
    IF js.tries > 0
    THEN [js |-> JobStateSave([js EXCEPT !.tries = 0], FALSE), save |-> TRUE,
          verb |-> "unchanged"]
    ELSE [js |-> js, save |-> FALSE, verb |-> "unchanged"]

\* no exact match: the baseline, tries = 0, save, report.changed
OnChanged(js) ==
    [js |-> JobStateSave([FuzzyBaseline(js) EXCEPT !.tries = 0], FALSE), save |-> TRUE,
     verb |-> "changed"]

\* as OnNew, but the result is not saved
OnNewNoSave(js) == [js |-> [js EXCEPT !.tries = 0], save |-> FALSE, verb |-> "new"]

\* never run before: tries = 0, save, report.new
OnNew(js) ==
    [js |-> JobStateSave([js EXCEPT !.tries = 0], FALSE), save |-> TRUE, verb |-> "new"]

\* as ClassifyResult, but the not-modified signal is tested before error_ignored
ClassifyResultNotModifiedFirst(js, job) ==
    IF js.exception # Null
    THEN IF js.exception = "NotModifiedError" THEN OnNotModified(js)
         ELSE IF js.error_ignored THEN OnIgnored(js)
         ELSE IF ErrorSuppressed(js, MaxTriesOf(job)) THEN OnSuppressed(js)
         ELSE OnError(js)
    ELSE IF HasSnapshots(js)
    THEN IF ExactMatch(js) THEN OnUnchanged(js) ELSE OnChanged(js)
    ELSE OnNew(js)

\* the loop body
ClassifyResult(js, job) ==
    IF js.exception # Null
    THEN IF js.error_ignored THEN OnIgnored(js)
         ELSE IF js.exception = "NotModifiedError" THEN OnNotModified(js)
         ELSE IF ErrorSuppressed(js, MaxTriesOf(job)) THEN OnSuppressed(js)
         ELSE OnError(js)
    ELSE IF HasSnapshots(js)
    THEN IF ExactMatch(js) THEN OnUnchanged(js) ELSE OnChanged(js)
    ELSE OnNew(js)

(***************************************************************************)
(* run_jobs (worker.py): selection of the jobs, the two phases.            *)
(***************************************************************************)
NumJobs == Len(jobs)

\* as IndexOutOfRange, but 0 passes for an index counted from the end
IndexOutOfRangeZero(idx, num_jobs) ==
    ~ ((-num_jobs <= idx /\ idx <= 0) \/ (1 <= idx /\ idx <= num_jobs))

\* not (-(num_jobs) <= idx <= -1 or 1 <= idx <= num_jobs)
IndexOutOfRange(idx, num_jobs) ==
    ~ ((-num_jobs <= idx /\ idx <= -1) \/ (1 <= idx /\ idx <= num_jobs))

\* as PositiveIndex, but without the + 1
PositiveIndexNoPlusOne(jn, num_jobs) == IF jn > 0 THEN jn ELSE num_jobs + jn

\* jn if jn > 0 else len(urlwatcher.jobs) + jn + 1
PositiveIndex(jn, num_jobs) == IF jn > 0 THEN jn ELSE num_jobs + jn + 1

NormalisedJoblist(f, num_jobs) == [i \in 1..Len(f) |-> PositiveIndex(f[i], num_jobs)]

InList(x, f) == \E i \in 1..Len(f) : f[i] = x

\* as SelectedJobs, but with one job for each entry of the joblist
SelectedJobsPerEntry(f, num_jobs) ==
    IF f = <<>> THEN [k \in 1..num_jobs |-> k] ELSE f

\* the jobs to run, as job indices in job-list order: those whose
\* index_number is in the joblist, or all when no joblist is set
SelectedJobs(f, num_jobs) ==
    LET Keep(k) == f = <<>> \/ InList(k, f)
    IN  SelectSeq([k \in 1..num_jobs |-> k], Keep)

\* as JobsToRun, but without the test on __is_browser__
JobsToRunUnfiltered(sel, browser) == sel

\* jobs_to_run of a phase: [job for job in jobs if (not) job.__is_browser__]
JobsToRun(sel, browser) ==
    LET Keep(k) == jobs[k].is_browser = browser
    IN  SelectSeq(sel, Keep)

\* 200e6: the bytes of available memory counted for one browser worker
BytesPerWorker == 200000000

\* as BrowserWorkers, but without the max(., 1)
BrowserWorkersNoFloorOne(virt_mem, cpu, configured) ==
    IF configured # 0 THEN configured
    ELSE Min2(virt_mem \div BytesPerWorker, IF cpu = 0 THEN 1 ELSE cpu)

\* max(int(virt_mem / 200e6), 1), then min(., os.cpu_count() or 1), unless
\* max_workers is configured; virt_mem in bytes, cpu 0 is None
BrowserWorkers(virt_mem, cpu, configured) ==
    IF configured # 0 THEN configured
    ELSE Min2(Max2(virt_mem \div BytesPerWorker, 1), IF cpu = 0 THEN 1 ELSE cpu)

NoPool == [configured |-> 0, size |-> 0, future |-> FALSE, virt_mem |-> 0, cpu_count |-> 0]

\* as JobRunnerStart, but the version check is submitted whatever the report holds
JobRunnerStartResubmits(phase, to_run, configured, size, js, vm, cpu) ==
    /\ pc' = phase
    /\ todo' = to_run
    /\ pool' = [configured |-> configured, size |-> size,
                future |-> TRUE,
                virt_mem |-> vm, cpu_count |-> cpu]
    /\ new_release_future' = "queued"
    /\ job_state' = [k \in 1..NumJobs |->
                        IF InList(k, to_run) THEN NewJobState(jobs[k].guid) ELSE js[k]]

\* job_runner up to the point where it waits for the first result: the
\* executor, the version-check future, one queued JobState per job
JobRunnerStart(phase, to_run, configured, size, js, vm, cpu) ==
    /\ pc' = phase
    /\ todo' = to_run
    /\ pool' = [configured |-> configured, size |-> size,
                future |-> new_release_future = Null,
                virt_mem |-> vm, cpu_count |-> cpu]
    /\ new_release_future' = IF new_release_future = Null THEN "queued"
                             ELSE new_release_future
    /\ job_state' = [k \in 1..NumJobs |->
                        IF InList(k, to_run) THEN NewJobState(jobs[k].guid) ELSE js[k]]

\* run_jobs ends, normally or by raising; its executors go out of scope
Return(how, js) ==
    /\ pc' = how
    /\ todo' = <<>>
    /\ job_state' = js
    /\ pool' = NoPool
    /\ UNCHANGED new_release_future

\* the inputs of the environment: psutil.virtual_memory().available in bytes
\* (0 also when psutil.Error was caught), os.cpu_count() (0 is None)
VirtMems == { 0, 199999999, 200000000, 399999999, 400000000, 1000000000 }

CpuCounts == { 0, 1, 2 }

\* the readings <<virt_mem, cpu_count>> of a machine
Probes == VirtMems \X CpuCounts

\* two of the readings: no memory on an unknown number of CPUs, 1 GB on two
ProbesLowHigh == { <<0, 0>>, <<1000000000, 2>> }

\* as BrowserJobs, but the memory probe is read when there is no browser job too
BrowserJobsProbeAlways(to_run, js, configured, probes) ==
    \/ Return("ImportError", js)
    \/ IF to_run = <<>>
       THEN Return("returned", js)
       ELSE \E p \in probes :
                JobRunnerStart("phase2", to_run, configured,
                               BrowserWorkers(p[1], p[2], configured), js,
                               p[1], IF configured # 0 THEN 0 ELSE p[2])

\* the browser jobs to_run: the memory probe, the executor's size, job_runner
BrowserJobs(to_run, js, configured, probes) ==
    IF to_run = <<>>
    THEN Return("returned", js)
    ELSE \/ \* get_virt_mem raises: psutil could not be imported
            Return("ImportError", js)
         \/ \E p \in probes :
                JobRunnerStart("phase2", to_run, configured,
                               BrowserWorkers(p[1], p[2], configured), js,
                               p[1], IF configured # 0 THEN 0 ELSE p[2])

\* the second half of run_jobs: the browser jobs, after the others
BrowserPhase(sel, js, configured, probes) ==
    BrowserJobs(JobsToRun(sel, TRUE), js, configured, probes)

\* the job-index filters the caller may configure for a list of n jobs
Filters(n) ==
    LET Idx == (-(n + 1))..(n + 1)
    IN  {<<>>} \cup { <<i>> : i \in Idx } \cup { <<1, -n>>, <<1, n + 1>> }

\* f holds an index outside [-n, -1] and [1, n]
HasBadIndex(f, n) == \E i \in 1..Len(f) : ~ (f[i] \in (-n)..(-1) \cup 1..n)

\* for a single job: no filter, and the filters with an index out of range
OneJobFilters == {<<>>} \cup { f \in Filters(1) : HasBadIndex(f, 1) }

MaxWorkersCfg == 1    \* largest configured max_workers explored

InRun == pc \in { "phase1", "phase2" }

\* run_jobs with a valid filter nf: the jobs sel, the non-browser jobs p1
RunSelected(nf, sel, p1, w, probes) ==
    /\ joblist' = nf
    /\ now' = now + 1
    /\ runBase' = Len(report)
    /\ IF p1 # <<>>
       THEN JobRunnerStart("phase1", p1, w, w, [k \in 1..NumJobs |-> NoJobState], 0, 0)
       ELSE BrowserPhase(sel, [k \in 1..NumJobs |-> NoJobState], w, probes)

\* as RunJobs, but the joblist is replaced before its indices are checked
RunJobsReplacesFirst(f, w, probes) ==
    /\ pc \in { "idle", "committed", "IndexError" }
    /\ now < MaxRuns
    /\ UNCHANGED << fs, command_config, cache_storage, jobs, fetchable, db, temp, report, nsets >>
    /\ IF f # <<>> /\ \E i \in 1..Len(f) : IndexOutOfRange(f[i], NumJobs)
       THEN /\ pc' = "IndexError"
            /\ joblist' = NormalisedJoblist(f, NumJobs)
            /\ UNCHANGED << new_release_future, job_state, todo, pool, now, runBase >>
       ELSE RunSelected(NormalisedJoblist(f, NumJobs),
                        SelectedJobs(NormalisedJoblist(f, NumJobs), NumJobs),
                        JobsToRun(SelectedJobs(NormalisedJoblist(f, NumJobs), NumJobs), FALSE),
                        w, probes)

\* run_jobs up to the point where it waits for the first result, or to its
\* end when the filter is invalid or no job is selected
RunJobs(f, w, probes) ==
    /\ pc \in { "idle", "committed", "IndexError" }
    /\ now < MaxRuns
    /\ UNCHANGED << fs, command_config, cache_storage, jobs, fetchable, db, temp, report, nsets >>
    /\ IF f # <<>> /\ \E i \in 1..Len(f) : IndexOutOfRange(f[i], NumJobs)
       THEN /\ pc' = "IndexError"
            /\ joblist' = f
            /\ UNCHANGED << new_release_future, job_state, todo, pool, now, runBase >>
       ELSE RunSelected(NormalisedJoblist(f, NumJobs),
                        SelectedJobs(NormalisedJoblist(f, NumJobs), NumJobs),
                        JobsToRun(SelectedJobs(NormalisedJoblist(f, NumJobs), NumJobs), FALSE),
                        w, probes)

\* tasks an executor's workers are busy with
Occupied ==
    Cardinality({ k \in 1..NumJobs : job_state[k].st = "running" })
    + (IF pool.future /\ new_release_future = "running" THEN 1 ELSE 0)

\* a worker takes the oldest queued task, the process step of job j: load
WorkerStart(j) ==
    /\ InRun
    /\ InList(j, todo)
    /\ job_state[j].st = "pending"
    /\ \A i \in 1..(j - 1) : InList(i, todo) => job_state[i].st # "pending"
    /\ ~ (pool.future /\ new_release_future = "queued")
    /\ pool.size = 0 \/ Occupied < pool.size
    /\ job_state' = [job_state EXCEPT ![j] = JobStateLoad(@, db)]
    /\ UNCHANGED << fs, command_config, cache_storage, jobs, fetchable, joblist, db, temp, report,
                    new_release_future, pc, now, todo, pool, runBase, nsets >>

\* as WorkerFinishOk, but the worker saves the result itself
WorkerFinishOkSaves(j, data, etag) ==
    /\ InRun
    /\ job_state[j].st = "running"
    /\ job_state' = [job_state EXCEPT ![j] = ProcessOk(@, data, etag, now)]
    /\ temp' = Save(temp, job_state[j].guid, SavedSnap(ProcessOk(job_state[j], data, etag, now)))
    /\ UNCHANGED << fs, command_config, cache_storage, jobs, fetchable, joblist, db, report,
                    new_release_future, pc, now, todo, pool, runBase, nsets >>

\* the process step of job j ends: the fetch returned data
WorkerFinishOk(j, data, etag) ==
    /\ InRun
    /\ job_state[j].st = "running"
    /\ job_state' = [job_state EXCEPT ![j] = ProcessOk(@, data, etag, now)]
    /\ UNCHANGED << fs, command_config, cache_storage, jobs, fetchable, joblist, db, temp, report,
                    new_release_future, pc, now, todo, pool, runBase, nsets >>

\* as WorkerFinishRaised, but the failed fetch is queued again
WorkerFinishRaisedRetries(j, exc, ignored) ==
    /\ InRun
    /\ job_state[j].st = "running"
    /\ job_state' = [job_state EXCEPT
                        ![j] = [ProcessRaised(@, exc, ignored, now) EXCEPT !.st = "pending"]]
    /\ UNCHANGED << fs, command_config, cache_storage, jobs, fetchable, joblist, db, temp, report,
                    new_release_future, pc, now, todo, pool, runBase, nsets >>

\* the process step of job j ends: the fetch raised
WorkerFinishRaised(j, exc, ignored) ==
    /\ InRun
    /\ job_state[j].st = "running"
    /\ job_state' = [job_state EXCEPT ![j] = ProcessRaised(@, exc, ignored, now)]
    /\ UNCHANGED << fs, command_config, cache_storage, jobs, fetchable, joblist, db, temp, report,
                    new_release_future, pc, now, todo, pool, runBase, nsets >>

\* a worker takes the version check, the first task of its executor
VersionCheckStart ==
    /\ new_release_future = "queued"
    /\ new_release_future' = "running"
    /\ UNCHANGED << fs, command_config, cache_storage, jobs, fetchable, joblist, db, temp, report,
                    pc, now, job_state, todo, pool, runBase, nsets >>

VersionCheckFinish ==
    /\ new_release_future = "running"
    /\ new_release_future' = "done"
    /\ UNCHANGED << fs, command_config, cache_storage, jobs, fetchable, joblist, db, temp, report,
                    pc, now, job_state, todo, pool, runBase, nsets >>

\* as ClassifyStep, but the saves staged before this one are dropped
ClassifyStepDropsStaged(j, r, probes) ==
    /\ temp' = IF r.save THEN Save(<<>>, r.js.guid, SavedSnap(r.js)) ELSE <<>>
    /\ report' = IF r.verb # Null
                 THEN Append(report, [index |-> j, verb |-> r.verb])
                 ELSE report
    /\ LET js == [job_state EXCEPT ![j] = [r.js EXCEPT !.verb = r.verb, !.st = "classified"]]
       IN  IF Tail(todo) # <<>>
           THEN /\ todo' = Tail(todo)
                /\ job_state' = js
                /\ UNCHANGED << pc, pool, new_release_future >>
           ELSE IF pc = "phase1"
           THEN BrowserPhase(SelectedJobs(joblist, NumJobs), js, pool.configured, probes)
           ELSE Return("returned", js)

\* as ClassifyStep, but a reported error ends the run
ClassifyStepAbortsOnError(j, r, probes) ==
    /\ temp' = IF r.save THEN Save(temp, r.js.guid, SavedSnap(r.js)) ELSE temp
    /\ report' = IF r.verb # Null
                 THEN Append(report, [index |-> j, verb |-> r.verb])
                 ELSE report
    /\ LET js == [job_state EXCEPT ![j] = [r.js EXCEPT !.verb = r.verb, !.st = "classified"]]
       IN  IF r.verb = "error"
           THEN Return("returned", js)
           ELSE IF Tail(todo) # <<>>
           THEN /\ todo' = Tail(todo)
                /\ job_state' = js
                /\ UNCHANGED << pc, pool, new_release_future >>
           ELSE IF pc = "phase1"
           THEN BrowserPhase(SelectedJobs(joblist, NumJobs), js, pool.configured, probes)
           ELSE Return("returned", js)

\* the loop body on the result r of classifying job j, and what follows it
ClassifyStep(j, r, probes) ==
    /\ temp' = IF r.save THEN Save(temp, r.js.guid, SavedSnap(r.js)) ELSE temp
    /\ report' = IF r.verb # Null
                 THEN Append(report, [index |-> j, verb |-> r.verb])
                 ELSE report
    /\ LET js == [job_state EXCEPT ![j] = [r.js EXCEPT !.verb = r.verb, !.st = "classified"]]
       IN  IF Tail(todo) # <<>>
           THEN /\ todo' = Tail(todo)
                /\ job_state' = js
                /\ UNCHANGED << pc, pool, new_release_future >>
           ELSE IF pc = "phase1"
           THEN BrowserPhase(SelectedJobs(joblist, NumJobs), js, pool.configured, probes)
           ELSE Return("returned", js)

\* as Classify, but the results are taken in the order the fetches complete
ClassifyAsCompleted(probes) ==
    /\ InRun
    /\ \E j \in 1..NumJobs :
           /\ InList(j, todo)
           /\ job_state[j].st = "done"
           /\ ClassifyStep(j, ClassifyResult(job_state[j], jobs[j]), probes)
    /\ UNCHANGED << fs, command_config, cache_storage, jobs, fetchable, joblist, db, now, runBase, nsets >>

\* executor.map yields the next result in job order and the loop body
\* classifies, saves and reports it; after the last one of the phase
\* run_jobs goes on to the browser phase or returns
Classify(probes) ==
    /\ InRun
    /\ todo # <<>>
    /\ job_state[Head(todo)].st = "done"
    /\ ClassifyStep(Head(todo), ClassifyResult(job_state[Head(todo)], jobs[Head(todo)]),
                    probes)
    /\ UNCHANGED << fs, command_config, cache_storage, jobs, fetchable, joblist, db, now, runBase, nsets >>

(***************************************************************************)
(* The caller: commit or roll back after the run; rewrite a snapshot.      *)
(***************************************************************************)
Commit ==
    /\ pc \in { "returned", "ImportError" }
    /\ db' = CommitStore(db, temp, cache_storage.max_snapshots)
    /\ temp' = <<>>
    /\ pc' = "committed"
    /\ UNCHANGED << fs, command_config, cache_storage, jobs, fetchable, joblist, report, new_release_future,
                    now, job_state, todo, pool, runBase, nsets >>

\* as Rollback, but the staged saves are kept
RollbackKeepsStaged ==
    /\ pc \in { "returned", "ImportError" }
    /\ pc' = "idle"
    /\ UNCHANGED << fs, command_config, cache_storage, jobs, fetchable, joblist, db, temp, report, new_release_future,
                    now, job_state, todo, pool, runBase, nsets >>

Rollback ==
    /\ pc \in { "returned", "ImportError" }
    /\ temp' = <<>>
    /\ pc' = "idle"
    /\ UNCHANGED << fs, command_config, cache_storage, jobs, fetchable, joblist, db, report, new_release_future,
                    now, job_state, todo, pool, runBase, nsets >>

\* load, delete, save with another timestamp and tries, commit
RewriteSnapshot(guid, zero_ts, one_try) ==
    /\ pc \in { "idle", "committed" }
    /\ nsets < MaxSets
    /\ db[guid] # <<>>
    /\ LET s == Load(db, guid)
       IN  db' = [db EXCEPT ![guid] =
                     << Snap(s.data, IF zero_ts THEN 0 ELSE s.timestamp,
                             IF one_try THEN 1 ELSE s.tries, s.etag) >>]
    /\ nsets' = nsets + 1
    /\ pc' = "idle"
    /\ UNCHANGED << fs, command_config, cache_storage, jobs, fetchable, joblist, temp, report, new_release_future,
                    now, job_state, todo, pool, runBase >>

\* as DeleteLatestOf, but the oldest snapshot is removed
DeleteOldestOf(store, guid) == [store EXCEPT ![guid] = Tail(@)]

\* CacheStorage.delete_latest on a fingerprint with snapshots
DeleteLatestOf(store, guid) == [store EXCEPT ![guid] = SubSeq(@, 1, Len(@) - 1)]

\* as GcStore, but the fingerprints that are not known are kept
GcStoreKeepsUnknown(store, known, keep) == [g \in Guids |-> Trim(store[g], keep)]

\* CacheStorage.gc: the fingerprints that are not known lose their history,
\* the others keep their keep most recent snapshots
GcStore(store, known, keep) ==
    [g \in Guids |-> IF g \in known THEN Trim(store[g], keep) ELSE <<>>]

StoreCommandAllowed == pc \in { "idle", "committed", "deleted", "nothing", "gc" }

\* --delete-snapshot: the latest snapshot of a job is deleted, or there is none
DeleteSnapshot(guid) ==
    /\ StoreCommandAllowed
    /\ IF db[guid] # <<>>
       THEN /\ db' = DeleteLatestOf(db, guid)
            /\ pc' = "deleted"
       ELSE /\ db' = db
            /\ pc' = "nothing"
    /\ UNCHANGED << fs, command_config, cache_storage, jobs, fetchable, joblist, temp, report, new_release_future,
                    now, job_state, todo, pool, runBase, nsets >>

\* --gc-cache with the fingerprints known of the jobs file in use
GcCache(known, keep) ==
    /\ StoreCommandAllowed
    /\ db' = GcStore(db, known, keep)
    /\ pc' = "gc"
    /\ UNCHANGED << fs, command_config, cache_storage, jobs, fetchable, joblist, temp, report, new_release_future,
                    now, job_state, todo, pool, runBase, nsets >>

(***************************************************************************)
(* The specification.                                                      *)
(***************************************************************************)
MaxTriesCfg == 2      \* largest max_tries explored

Job(g, mt, b) == [guid |-> g, max_tries |-> mt, is_browser |-> b]

\* a single job, every max_tries (-1: unset), browser or not
OneJobLists == { << Job("g1", mt, b) >> : mt \in (-1)..MaxTriesCfg, b \in BOOLEAN }

\* --database-engine
Engines == { "sqlite3", "redis", "textfiles", "minidb" }

\* the store main() makes for an engine: max_snapshots goes to sqlite3 only
CacheStorageFor(engine, max_snapshots) ==
    [engine |-> engine,
     configured |-> max_snapshots,
     max_snapshots |-> IF engine = "sqlite3" THEN max_snapshots ELSE 0]

(***************************************************************************)
(* The command line (cli.py): the files, migrate_from_legacy,              *)
(* locate_storage_file, the store main() sets up.                          *)
(***************************************************************************)
\* a pathlib.Path: its directory part ("." when it has none), the stem and the
\* suffix of its final component
Path(parent, stem, suffix) == [parent |-> parent, stem |-> stem, suffix |-> suffix]

NoFiles == [p \in {} |-> p]

\* Path.is_file
IsFile(f, p) == p \in DOMAIN f

\* shutil.copyfile(old, new): new holds the contents of old
CopyFile(f, old, new) ==
    [p \in DOMAIN f \cup { new } |-> IF p = new THEN f[old] ELSE f[p]]

\* as MigrateOne, but without the test on the new file
MigrateOneOverwrites(f, old_file, new_file) ==
    IF IsFile(f, old_file) THEN CopyFile(f, old_file, new_file) ELSE f

\* the body of the loop of migrate_from_legacy
MigrateOne(f, old_file, new_file) ==
    IF IsFile(f, old_file) /\ ~ IsFile(f, new_file)
    THEN CopyFile(f, old_file, new_file)
    ELSE f

\* the loop over zip(old files, new files)
RECURSIVE MigratePairs(_, _, _)
MigratePairs(f, olds, news) ==
    IF olds = <<>> \/ news = <<>> THEN f
    ELSE MigratePairs(MigrateOne(f, Head(olds), Head(news)), Tail(olds), Tail(news))

\* Path.home().joinpath(f'.{legacy_package}')
LgProjectPath(legacy_package) == "~/." \o legacy_package

\* platformdirs.user_cache_path(legacy_package)
LgCachePath(legacy_package) == "~/.cache/" \o legacy_package

\* lg_config_file, lg_urls_file, lg_hooks_file, lg_cache_file
LegacyFiles(legacy_package) ==
    << Path(LgProjectPath(legacy_package), legacy_package, ".yaml"),
       Path(LgProjectPath(legacy_package), "urls", ".yaml"),
       Path(LgProjectPath(legacy_package), "hooks", ".py"),
       Path(LgCachePath(legacy_package), "cache", ".db") >>

\* the files after migrate_from_legacy
migrate_from_legacy(f, legacy_package, config_file, jobs_file, hooks_file, cache_file) ==
    MigratePairs(f, LegacyFiles(legacy_package),
                 << config_file, jobs_file, hooks_file, cache_file >>)

\* Path.with_suffix
WithSuffix(p, ext) == [p EXCEPT !.suffix = ext]

\* default_path.joinpath(file), for a file without directory part
JoinPath(dir, p) == [p EXCEPT !.parent = dir]

\* as SearchFilenames, but the filename with ext comes first
SearchFilenamesExtFirst(filename, ext) ==
    IF ext # "" /\ filename.suffix # ext
    THEN << WithSuffix(filename, ext), filename >>
    ELSE << filename >>

\* the filename, then the filename with ext if ext is given and different
\* from its suffix ("" is None)
SearchFilenames(filename, ext) ==
    IF ext # "" /\ filename.suffix # ext
    THEN << filename, WithSuffix(filename, ext) >>
    ELSE << filename >>

\* the loop over search_filenames: the first file found, as a list of at
\* most one path
RECURSIVE FirstFound(_, _, _)
FirstFound(f, files, default_path) ==
    IF files = <<>> THEN <<>>
    ELSE IF IsFile(f, Head(files)) THEN << Head(files) >>
    ELSE IF Head(files).parent = "." /\ IsFile(f, JoinPath(default_path, Head(files)))
    THEN << JoinPath(default_path, Head(files)) >>
    ELSE FirstFound(f, Tail(files), default_path)

locate_storage_file(f, filename, default_path, ext) ==
    IF FirstFound(f, SearchFilenames(filename, ext), default_path) = <<>>
    THEN filename
    ELSE FirstFound(f, SearchFilenames(filename, ext), default_path)[1]

\* main(): platformdirs.user_config_path and user_cache_path of the project
config_path == "~/.config/webchanges"

cache_path == "~/.cache/webchanges"

default_config_file == Path(config_path, "config", ".yaml")

default_jobs_file == Path(config_path, "jobs", ".yaml")

default_hooks_file == Path(config_path, "hooks", ".py")

default_cache_file == Path(cache_path, "cache", ".db")

\* any(str(cache).startswith(prefix) for prefix in ('redis://', 'rediss://')),
\* the text of the cache location cut in pieces
IsRedisUri(cache) == cache # <<>> /\ cache[1] \in { "redis://", "rediss://" }

\* the branch main() takes to set up the store: the class of the store, or
\* the exception raised
StorageClass(database_engine, cache) ==
    IF database_engine = "sqlite3" THEN "sqlite3"
    ELSE IF IsRedisUri(cache) THEN "redis"
    ELSE IF database_engine = "redis" THEN "RuntimeError"
    ELSE IF database_engine = "textfiles" THEN "textfiles"
    ELSE IF database_engine = "minidb" THEN "minidb"
    ELSE "NotImplementedError"

\* no store is set up yet
NoStorage == [engine |-> Null, configured |-> 0, max_snapshots |-> 0]

\* a configuration main() makes the store from
ConfigFor(storage) ==
    [database_engine |-> storage.engine,
     cache |-> IF storage.engine = "redis" THEN << "redis://", "host" >>
               ELSE << "cache", ".db" >>,
     max_snapshots |-> storage.configured,
     config |-> default_config_file]

\* main() checks for legacy files and copies them
MigrateFromLegacy ==
    /\ pc \in { "main", "migrated" }
    /\ fs' = migrate_from_legacy(fs, "urlwatch", default_config_file, default_jobs_file,
                                 default_hooks_file, default_cache_file)
    /\ pc' = "migrated"
    /\ UNCHANGED << command_config, cache_storage, jobs, fetchable, joblist, db, temp, report,
                    new_release_future, now, job_state, todo, pool, runBase, nsets >>

\* command_config.config = locate_storage_file(command_config.config, ...)
LocateStorageFile(ext) ==
    /\ pc = "migrated"
    /\ command_config' =
           [command_config EXCEPT
               !.config = locate_storage_file(fs, @, config_path, ext)]
    /\ pc' = "located"
    /\ UNCHANGED << fs, cache_storage, jobs, fetchable, joblist, db, temp, report,
                    new_release_future, now, job_state, todo, pool, runBase, nsets >>

\* main() sets up the store, or raises
SetupStorage ==
    /\ pc = "located"
    /\ IF StorageClass(command_config.database_engine, command_config.cache)
              \in { "RuntimeError", "NotImplementedError" }
       THEN /\ pc' = StorageClass(command_config.database_engine, command_config.cache)
            /\ UNCHANGED cache_storage
       ELSE /\ pc' = "idle"
            /\ cache_storage' =
                   CacheStorageFor(StorageClass(command_config.database_engine,
                                                command_config.cache),
                                   command_config.max_snapshots)
    /\ UNCHANGED << fs, command_config, jobs, fetchable, joblist, db, temp, report,
                    new_release_future, now, job_state, todo, pool, runBase, nsets >>

\* the jobs, the sources, the empty store and report, the clock at start
InitRun(lists, data, start) ==
    /\ jobs \in lists
    /\ fetchable = data
    /\ joblist = <<>>
    /\ db = [g \in Guids |-> <<>>]
    /\ temp = <<>>
    /\ report = <<>>
    /\ new_release_future = Null
    /\ now = start
    /\ job_state = [k \in 1..Len(jobs) |-> NoJobState]
    /\ todo = <<>>
    /\ pool = NoPool
    /\ runBase = 0
    /\ nsets = 0

\* the state after construction, the clock at start, the store one of storages
InitFor(lists, data, start, storages) ==
    /\ fs = NoFiles
    /\ cache_storage \in storages
    /\ command_config = ConfigFor(cache_storage)
    /\ pc = "idle"
    /\ InitRun(lists, data, start)

\* the default engine, sqlite3, with the retention limit MaxSnapshots
InitAt(lists, data, start) ==
    InitFor(lists, data, start, { CacheStorageFor("sqlite3", MaxSnapshots) })

InitWith(lists, data) == InitAt(lists, data, 0)

Init == InitWith(OneJobLists, Strings)

\* the steps of the program and of its caller, for the filters, the configured
\* max_workers, the etags the sources may return and the readings of the
\* memory and CPU probes
NextFor(filters, workers, etags, probes) ==
    \/ \E f \in filters, w \in workers : RunJobs(f, w, probes)
    \/ \E j \in 1..NumJobs : WorkerStart(j)
    \/ \E j \in 1..NumJobs, d \in fetchable, e \in etags : WorkerFinishOk(j, d, e)
    \/ \E j \in 1..NumJobs, x \in { "Error", "NotModifiedError" }, ig \in BOOLEAN :
           WorkerFinishRaised(j, x, ig)
    \/ VersionCheckStart
    \/ VersionCheckFinish
    \/ Classify(probes)
    \/ Commit
    \/ Rollback
    \/ \E g \in Guids, z \in BOOLEAN, o \in BOOLEAN : RewriteSnapshot(g, z, o)

NextOver(filters, workers, etags) == NextFor(filters, workers, etags, ProbesLowHigh)

NextWith(filters, workers) == NextOver(filters, workers, Etags)

\* one job: no filter, or a filter with an index out of range
Next == NextWith(OneJobFilters, {0})

Spec == Init /\ [][Next]_vars

\* The scenario of one job A without max_tries whose source returns "X" or
\* "Y" and no etag; "Z" is a third result.
X == <<1>>

Y == <<2>>

Z == <<1, 2>>

InitScenario == InitWith({ << Job("g1", -1, FALSE) >> }, { X, Y })

NextScenario == NextOver(OneJobFilters, {0}, { "" })

SpecScenario == InitScenario /\ [][NextScenario]_vars

\* Scheduling: two jobs that run in one phase, or a browser job listed before
\* a plain one, or no job at all; every filter, every configured max_workers,
\* every reading of the probes.
SchedRuns == 1        \* number of run_jobs calls explored with two jobs

SchedJobLists ==
    { << Job("g1", 0, FALSE), Job("g2", 2, FALSE) >>,
      << Job("g1", 0, TRUE), Job("g2", 0, FALSE) >>,
      << >> }

InitSched == InitAt(SchedJobLists, { X }, MaxRuns - SchedRuns)

NextSched == NextFor(Filters(2), 0..MaxWorkersCfg, { "" }, Probes)

SpecSched == InitSched /\ [][NextSched]_vars

\* What the executors and the loop of job_runner do without being asked: an
\* idle worker takes the oldest queued task, a fetch ends, the loop takes the
\* next result once it is there. Nothing makes get_new_release_version end.
Scheduled ==
    \/ \E j \in 1..NumJobs : WorkerStart(j)
    \/ \E j \in 1..NumJobs, d \in fetchable : WorkerFinishOk(j, d, "")
    \/ \E j \in 1..NumJobs, x \in { "Error", "NotModifiedError" }, ig \in BOOLEAN :
           WorkerFinishRaised(j, x, ig)
    \/ VersionCheckStart
    \/ Classify(Probes)

SpecSchedFair == InitSched /\ [][NextSched]_vars /\ WF_vars(Scheduled)

\* The filter: two plain jobs; run_jobs is called with a filter the caller
\* configures, or again with the configuration as the last call left it.
FilterRuns == 2       \* number of run_jobs calls explored with a kept filter

InitFilter ==
    InitAt({ << Job("g1", 0, FALSE), Job("g2", 0, FALSE) >> }, { X }, MaxRuns - FilterRuns)

\* run_jobs on the urlwatch_config.joblist the last call left
RunJobsAgain == RunJobs(joblist, 0, ProbesLowHigh)

NextFilter ==
    \/ NextFor(Filters(2), {0}, { "" }, ProbesLowHigh)
    \/ RunJobsAgain

SpecFilter == InitFilter /\ [][NextFilter]_vars

\* main() sets up the store: every --database-engine, one of them not
\* supported, every kind of --cache location; then one job is run once.
DatabaseEngines == Engines \cup { "other" }

CacheLocations ==
    { << "redis://", "host" >>, << "rediss://", "host" >>,
      << "cache", ".db" >>, << "redis", ".db" >> }

CommandConfigs ==
    { [database_engine |-> e, cache |-> c, max_snapshots |-> MaxSnapshots,
       config |-> default_config_file] : e \in DatabaseEngines, c \in CacheLocations }

\* main() at the point stage, with the files and the configuration of one of
\* the given ones, and no store yet
InitCli(stage, files, configs) ==
    /\ pc = stage
    /\ fs \in files
    /\ command_config \in configs
    /\ cache_storage = NoStorage
    /\ InitRun({ << Job("g1", 0, FALSE) >> }, { X }, MaxRuns - 1)

InitMain == InitCli("located", { NoFiles }, CommandConfigs)

NextMain ==
    \/ SetupStorage
    \/ NextFor({ <<>> }, {0}, { "" }, ProbesLowHigh)

SpecMain == InitMain /\ [][NextMain]_vars

\* main() starts: each legacy file of urlwatch and each default file of the
\* project exists or not; a file holds its own path as its contents.
NewFiles ==
    << default_config_file, default_jobs_file, default_hooks_file, default_cache_file >>

MigrateFiles ==
    { LegacyFiles("urlwatch")[i] : i \in 1..4 } \cup { NewFiles[i] : i \in 1..4 }

InitMigrate ==
    InitCli("main", { [p \in S |-> p] : S \in SUBSET MigrateFiles },
            { ConfigFor(CacheStorageFor("sqlite3", MaxSnapshots)) })

\* main() is started, and started again
NextMigrate == MigrateFromLegacy

SpecMigrate == InitMigrate /\ [][NextMigrate]_vars

\* main() locates a file: the filename is given with or without a directory
\* and with no suffix, the suffix .yaml or another one; each file of that
\* name in the current, the given or the default directory exists or not.
Suffixes == { "", ".yaml", ".txt" }

Filenames == { Path(d, "jobs", x) : d \in { ".", "dir" }, x \in Suffixes }

LocateFiles == { Path(d, "jobs", x) : d \in { ".", "dir", config_path }, x \in Suffixes }

\* the ext argument; "" is None
Exts == { "", ".yaml" }

InitLocate ==
    InitCli("migrated", { [p \in S |-> p] : S \in SUBSET LocateFiles },
            { [ConfigFor(CacheStorageFor("sqlite3", MaxSnapshots)) EXCEPT !.config = n] :
                  n \in Filenames })

NextLocate == \E ext \in Exts : LocateStorageFile(ext)

SpecLocate == InitLocate /\ [][NextLocate]_vars

\* The store: every engine, made with a retention limit of StoreLimit; one
\* job run StoreRuns times, or two jobs run once; then the store commands.
StoreRuns == 3        \* number of run_jobs calls explored before the store commands

StoreLimit == 2       \* the configured max_snapshots

StoreStorages == { CacheStorageFor(e, StoreLimit) : e \in Engines }

JobGuids == { jobs[k].guid : k \in 1..NumJobs }

\* the keep limits gc is called with
KeepLimits == { 1, 2 }

InitStore ==
    \/ InitFor({ << Job("g1", 0, FALSE) >> }, { X, Y, Z }, MaxRuns - StoreRuns, StoreStorages)
    \/ InitFor({ << Job("g1", 0, FALSE), Job("g2", 0, FALSE) >> }, { X }, MaxRuns - 1,
               StoreStorages)

NextStore ==
    \/ NextFor({ <<>> }, {0}, { "" }, ProbesLowHigh)
    \/ \E g \in JobGuids : DeleteSnapshot(g)
    \/ \E known \in SUBSET JobGuids, keep \in KeepLimits : GcCache(known, keep)

SpecStore == InitStore /\ [][NextStore]_vars


(***************************************************************************)
(* Properties.                                                             *)
(***************************************************************************)
Classified(j) == job_state[j].st = "classified"

\* the fetch of job j failed: an exception that is neither ignored nor a 304
Failed(j) ==
    /\ Classified(j)
    /\ job_state[j].exception = "Error"
    /\ ~ job_state[j].error_ignored

\* the fetch of job j returned data
Fetched(j) == Classified(j) /\ job_state[j].exception = Null

Succeeded(j) == Classified(j) /\ job_state[j].verb \in { "new", "unchanged", "changed" }

\* the records this run appended to the report for job j
ReportsOf(j) == { i \in (runBase + 1)..Len(report) : report[i].index = j }

ReportedAs(j, verb) == \E i \in ReportsOf(j) : report[i].verb = verb

\* tries_this_run = tries_stored + 1
TriesThisRun(j) == job_state[j].loaded.tries + 1

\* the job's max_tries, unset counting as 0
MaxTriesOrZero(j) == IF jobs[j].max_tries = -1 THEN 0 ELSE jobs[j].max_tries

\* the committed store is the one the jobs of the last run loaded from
StoreAsLoaded == pc \in { "phase1", "phase2", "returned", "ImportError" }

Latest(j) == Load(db, jobs[j].guid)

HasHistory(j) == db[jobs[j].guid] # <<>>

StoredData(j) == { db[jobs[j].guid][i].data : i \in 1..Len(db[jobs[j].guid]) }

\* a save of the data d with the tries t is staged for job j
Staged(j, d, t) ==
    \E i \in 1..Len(temp) :
        /\ temp[i].guid = jobs[j].guid
        /\ temp[i].snap.data = d
        /\ temp[i].snap.tries = t

\* C1: a job-index filter with an index outside [-n,-1] and [1,n] makes
\* run_jobs raise the index-range error, and the call fetches nothing, saves
\* nothing and reports nothing: store, staged saves, report and JobStates are
\* as before the call.
C1_BadIndexRaisesFirst ==
    [][ \A f \in Filters(NumJobs), w \in 0..MaxWorkersCfg :
            RunJobs(f, w, Probes) /\ HasBadIndex(f, NumJobs)
                => /\ pc' = "IndexError"
                   /\ UNCHANGED << db, temp, report, job_state, todo, new_release_future >>
      ]_vars

\* C1 witness: the filter [1, n+1], a valid index then one out of range, has
\* raised after an earlier run saved a snapshot.
C1_Witness ==
    /\ pc = "IndexError"
    /\ joblist = <<1, NumJobs + 1>>
    /\ \E g \in Guids : db[g] # <<>>

\* C2: a failed fetch is reported as error iff tries_this_run >= max_tries
\* or max_tries = 0; otherwise no report method is called for the job.
C2_ErrorIffTriesReached ==
    \A j \in 1..NumJobs :
        Failed(j) =>
            /\ ReportedAs(j, "error")
                   <=> (TriesThisRun(j) >= MaxTriesOrZero(j) \/ MaxTriesOrZero(j) = 0)
            /\ ~ ReportedAs(j, "error") => ReportsOf(j) = {}

\* C2 witness: at the boundary tries_this_run = max_tries > 0 the error is reported.
C2_Witness ==
    \E j \in 1..NumJobs :
        /\ Failed(j)
        /\ MaxTriesOrZero(j) > 0
        /\ TriesThisRun(j) = MaxTriesOrZero(j)
        /\ ReportedAs(j, "error")

\* the k-th of consecutive failing runs of job j, each committed before the
\* next, counted from a store without failures
FailingRun(j, k) ==
    /\ Failed(j)
    /\ nsets = 0
    /\ now = k
    /\ job_state[j].loaded.tries = k - 1

\* C3 as stated: with max_tries = 2, of three consecutive failing runs the
\* first is suppressed with tries = 1, the second is suppressed with
\* tries = 2, the third reports error with tries = 3.
C3_SecondRunSuppressed ==
    \A j \in 1..NumJobs :
        jobs[j].max_tries = 2 =>
            /\ FailingRun(j, 1) => job_state[j].tries = 1 /\ ReportsOf(j) = {}
            /\ FailingRun(j, 2) => job_state[j].tries = 2 /\ ReportsOf(j) = {}
            /\ FailingRun(j, 3) => job_state[j].tries = 3 /\ ReportedAs(j, "error")

\* C3 amended: with max_tries = 2, of three consecutive failing runs the
\* first is suppressed with tries = 1, the second reports error with
\* tries = 2, the third reports error with tries = 3.
C3_SecondRunReported ==
    \A j \in 1..NumJobs :
        jobs[j].max_tries = 2 =>
            /\ FailingRun(j, 1) => job_state[j].tries = 1 /\ ReportsOf(j) = {}
            /\ FailingRun(j, 2) => job_state[j].tries = 2 /\ ReportedAs(j, "error")
            /\ FailingRun(j, 3) => job_state[j].tries = 3 /\ ReportedAs(j, "error")

\* C3 witness: the third failing run in a row, max_tries = 2, is committed.
C3_Witness ==
    \E j \in 1..NumJobs :
        /\ jobs[j].max_tries = 2
        /\ FailingRun(j, 3)
        /\ pc = "committed"

\* C4: once a run is committed, the tries stored for the fingerprint are one
\* more than before the run if the fetch failed (suppressed or reported) and
\* 0 if the run succeeded.
C4_TriesCountFailures ==
    pc = "committed" =>
        \A j \in 1..NumJobs :
            /\ Failed(j) => Latest(j).tries = job_state[j].loaded.tries + 1
            /\ Succeeded(j) => Latest(j).tries = 0

\* C4 witness: a second failure in a row is committed, then stored tries = 2.
C4_Witness ==
    /\ pc = "committed"
    /\ \E j \in 1..NumJobs :
           Failed(j) /\ job_state[j].loaded.tries = 1 /\ Latest(j).tries = 2

\* C5: once a run with the outcome new, unchanged or changed is committed,
\* the most recent snapshot has tries = 0, whatever tries was stored before.
C5_SuccessResetsTries ==
    \A j \in 1..NumJobs :
        pc = "committed" /\ ReportsOf(j) # {} /\ ~ ReportedAs(j, "error")
            => Latest(j).tries = 0

\* C5 witness: an unchanged result is committed over stored tries of 2.
C5_Witness ==
    \E j \in 1..NumJobs :
        /\ pc = "committed"
        /\ ReportedAs(j, "unchanged")
        /\ job_state[j].loaded.tries = 2
        /\ Latest(j).tries = 0

\* C6: a successful fetch for a fingerprint without snapshots is classified
\* new: it is reported as new, and the new data is staged with tries = 0.
C6_NoSnapshotIsNew ==
    \A j \in 1..NumJobs :
        StoreAsLoaded /\ Fetched(j) /\ ~ HasHistory(j)
            => /\ job_state[j].verb = "new"
               /\ ReportedAs(j, "new")
               /\ Staged(j, job_state[j].new_data, 0)

\* C6 witness: a first fetch returning "ab" has been classified.
C6_Witness ==
    \E j \in 1..NumJobs :
        /\ StoreAsLoaded /\ Fetched(j) /\ ~ HasHistory(j)
        /\ job_state[j].new_data = <<1, 2>>
        /\ ReportedAs(j, "new")

\* C7 as stated: a successful fetch whose data equals the data of the latest
\* snapshot is classified unchanged, whatever that snapshot's data (empty
\* included) and timestamp (0 included).
C7_SameAsLatestIsUnchanged ==
    \A j \in 1..NumJobs :
        StoreAsLoaded /\ Fetched(j) /\ HasHistory(j)
            /\ job_state[j].new_data = Latest(j).data
            => job_state[j].verb = "unchanged"

\* C7 outside the case of C8 (latest snapshot with empty data and timestamp 0)
C7_ExceptEmptyAtZero ==
    \A j \in 1..NumJobs :
        StoreAsLoaded /\ Fetched(j) /\ HasHistory(j)
            /\ job_state[j].new_data = Latest(j).data
            /\ (Latest(j).data # <<>> \/ Latest(j).timestamp # 0)
            => job_state[j].verb = "unchanged"

\* C8 as stated: when the latest snapshot has timestamp 0, a successful fetch
\* is never classified new, whatever the stored data (empty included) and
\* the stored tries.
C8_TimestampZeroIsHistory ==
    \A j \in 1..NumJobs :
        StoreAsLoaded /\ Fetched(j) /\ HasHistory(j) /\ Latest(j).timestamp = 0
            => job_state[j].verb # "new"

\* C8 outside the case of empty stored data
C8_ExceptEmptyData ==
    \A j \in 1..NumJobs :
        StoreAsLoaded /\ Fetched(j) /\ HasHistory(j) /\ Latest(j).timestamp = 0
            /\ Latest(j).data # <<>>
            => job_state[j].verb # "new"

\* C9: a successful fetch whose data equals an older snapshot, but not the
\* latest one, is classified unchanged, not changed.
C9_RevertIsUnchanged ==
    \A j \in 1..NumJobs :
        StoreAsLoaded /\ Fetched(j) /\ HasHistory(j)
            /\ job_state[j].new_data # Latest(j).data
            /\ job_state[j].new_data \in StoredData(j)
            => job_state[j].verb = "unchanged" /\ ReportedAs(j, "unchanged")

\* C9 witness: the history holds two snapshots and the data of the older
\* one, not of the latest, comes back.
C9_Witness ==
    \E j \in 1..NumJobs :
        /\ StoreAsLoaded /\ Fetched(j)
        /\ Len(db[jobs[j].guid]) = 2
        /\ job_state[j].new_data = db[jobs[j].guid][1].data
        /\ job_state[j].new_data # Latest(j).data
        /\ ReportedAs(j, "unchanged")

\* the stored contents scoring at least the cutoff against word
GoodMatches(j, word) == { x \in StoredData(j) : AboveCutoff(Ratio(x, word)) }

\* the baseline of job j is x, a best-scoring stored content
BaselineIsClosest(j, good, word) ==
    /\ job_state[j].old_data \in good
    /\ \A y \in good : ~ RatioLess(Ratio(job_state[j].old_data, word), Ratio(y, word))

BaselineIsLatest(j) ==
    /\ job_state[j].old_data = Latest(j).data
    /\ job_state[j].old_timestamp = Latest(j).timestamp

\* the baseline C10 states for a fetch without exact match
ChangedAgainstBaseline(j) ==
    /\ job_state[j].verb = "changed"
    /\ ReportedAs(j, "changed")
    /\ Staged(j, job_state[j].new_data, 0)
    /\ IF Cardinality(StoredData(j)) >= 2 /\ GoodMatches(j, job_state[j].new_data) # {}
       THEN BaselineIsClosest(j, GoodMatches(j, job_state[j].new_data), job_state[j].new_data)
       ELSE BaselineIsLatest(j)

\* C10 as stated: a successful fetch without exact match in the history is
\* classified changed and staged; its baseline is the closest match when the
\* history holds two distinct snapshots or more and one scores above the
\* cutoff, and the latest snapshot otherwise.
C10_ChangedBaseline ==
    \A j \in 1..NumJobs :
        StoreAsLoaded /\ Fetched(j) /\ HasHistory(j)
            /\ job_state[j].new_data \notin StoredData(j)
            => ChangedAgainstBaseline(j)

\* C10 outside the case of C8 (latest snapshot with empty data and timestamp 0)
C10_ExceptEmptyAtZero ==
    \A j \in 1..NumJobs :
        StoreAsLoaded /\ Fetched(j) /\ HasHistory(j)
            /\ job_state[j].new_data \notin StoredData(j)
            /\ (Latest(j).data # <<>> \/ Latest(j).timestamp # 0)
            => ChangedAgainstBaseline(j)

\* the verbs of the report, in the order the records were appended
VerbsOf(r) == [i \in 1..Len(r) |-> r[i].verb]

\* run k of the scenario: only runs so far, and the store was never rewritten
ScenarioRun(k) == now = k /\ nsets = 0 /\ Fetched(1)

\* C11: one job A, a commit after each run. Run 1 fetches "X" at time t: it
\* is classified new and the history is [("X", t, 0, "")]. Run 2 fetches "X":
\* unchanged, tries = 0. Run 3 fetches "Y": changed, the baseline is ("X", t).
C11_NewUnchangedChanged ==
    /\ ScenarioRun(1) /\ job_state[1].new_data = X
           => /\ job_state[1].verb = "new"
              /\ pc = "committed" => db["g1"] = << Snap(X, 1, 0, "") >>
    /\ ScenarioRun(2) /\ job_state[1].loaded = Snap(X, 1, 0, "")
                      /\ job_state[1].new_data = X
           => /\ job_state[1].verb = "unchanged"
              /\ job_state[1].tries = 0
              /\ pc = "committed" => db["g1"] = << Snap(X, 1, 0, "") >>
    /\ ScenarioRun(3) /\ job_state[1].loaded = Snap(X, 1, 0, "")
                      /\ job_state[1].new_data = Y
           => /\ job_state[1].verb = "changed"
              /\ job_state[1].old_data = X
              /\ job_state[1].old_timestamp = 1
              /\ pc = "committed"
                     => db["g1"] = << Snap(X, 1, 0, ""), Snap(Y, 3, 0, "") >>

\* C11 witness: the three runs of the scenario, each committed.
C11_Witness ==
    /\ pc = "committed"
    /\ ScenarioRun(3)
    /\ VerbsOf(report) = << "new", "unchanged", "changed" >>
    /\ job_state[1].old_data = X /\ job_state[1].old_timestamp = 1
    /\ db["g1"] = << Snap(X, 1, 0, ""), Snap(Y, 3, 0, "") >>

\* the fetch of job j ended with the not-modified signal
NotModified(j) == Classified(j) /\ job_state[j].exception = "NotModifiedError"

\* the saves staged for the fingerprint of job j
StagedFor(j) == { i \in 1..Len(temp) : temp[i].guid = jobs[j].guid }

C13_FailureSavesOldData ==
    \A j \in 1..NumJobs :
        StoreAsLoaded /\ Failed(j)
            => /\ Cardinality(StagedFor(j)) = 1
               /\ \A i \in StagedFor(j) :
                      /\ temp[i].snap.data = job_state[j].loaded.data
                      /\ temp[i].snap.timestamp = job_state[j].loaded.timestamp
                      /\ temp[i].snap.tries = TriesThisRun(j)

\* C13 witness: a suppressed failure over a snapshot with data.
C13_Witness ==
    \E j \in 1..NumJobs :
        /\ StoreAsLoaded /\ Failed(j)
        /\ ReportsOf(j) = {}
        /\ job_state[j].loaded.data # <<>>
        /\ Staged(j, job_state[j].loaded.data, TriesThisRun(j))

\* a step of the caller: commit, rollback or a rewrite of a snapshot
CallerStep ==
    Commit \/ Rollback \/ \E g \in Guids, z \in BOOLEAN, o \in BOOLEAN : RewriteSnapshot(g, z, o)

IsPrefix(a, b) == Len(a) <= Len(b) /\ SubSeq(b, 1, Len(a)) = a

SnapshotsOf(store, g) == { store[g][i] : i \in 1..Len(store[g]) }

\* the snapshot s for g was saved in the run that is being committed: it has
\* the time of this run, or the data and time the run loaded
SavedThisRun(g, s) ==
    \/ s.timestamp = now
    \/ s.data = Load(db, g).data /\ s.timestamp = Load(db, g).timestamp

\* C15: a staged save is not returned by load or get_history_data before the
\* commit (no step but the caller's changes what they read), is returned by
\* both after the commit, and a save that was rolled back is not made visible
\* by a later commit.
C15_VisibleOnlyAfterCommit ==
    [][ /\ ~ CallerStep => db' = db
        /\ Rollback => db' = db
        /\ Commit =>
               /\ \A i \in 1..Len(temp) :
                      /\ temp[i].snap.data
                             \in HistoryKeys(GetHistoryData(db', temp[i].guid))
                      /\ (\A k \in (i + 1)..Len(temp) : temp[k].guid # temp[i].guid)
                             => Load(db', temp[i].guid) = temp[i].snap
               /\ \A g \in Guids :
                      \A s \in SnapshotsOf(db', g) \ SnapshotsOf(db, g) : SavedThisRun(g, s)
      ]_vars

\* C15 witness: the first run saved a result and was rolled back, the second
\* saved one and was committed: the store holds the second only.
C15_Witness ==
    /\ pc = "committed"
    /\ now = 2
    /\ VerbsOf(report) = << "new", "new" >>
    /\ Len(db["g1"]) = 1
    /\ db["g1"][1].timestamp = 2

\* job k is selected by the (normalised) joblist of the run
SelectedNow(k) == joblist = <<>> \/ InList(k, joblist)

\* the fetch of job k has started in this run
Started(k) == job_state[k].st \in { "running", "done", "classified" }

\* job k is classified, and reported if its branch reports
Completed(k) ==
    /\ Classified(k)
    /\ job_state[k].verb # Null => ReportedAs(k, job_state[k].verb)
    /\ job_state[k].verb \in { "new", "changed" } => Staged(k, job_state[k].new_data, 0)

\* C16: no browser job starts its fetch before every selected non-browser job
\* is classified, saved and reported; every selected job is in exactly one
\* of the two phases.
C16_BrowserJobsAfterOthers ==
    StoreAsLoaded =>
        /\ \A b \in 1..NumJobs :
               jobs[b].is_browser /\ Started(b) =>
                   \A k \in 1..NumJobs :
                       ~ jobs[k].is_browser /\ SelectedNow(k) => Completed(k)
        /\ \A k \in 1..NumJobs :
               SelectedNow(k) =>
                   /\ InList(k, JobsToRun(SelectedJobs(joblist, NumJobs), FALSE))
                          # InList(k, JobsToRun(SelectedJobs(joblist, NumJobs), TRUE))
                   /\ pc = "phase1" => (job_state[k].st # "none" <=> ~ jobs[k].is_browser)

\* C16 witness: the browser job, first in the job list, fetches after the
\* other job was reported.
C16_Witness ==
    /\ pc = "phase2"
    /\ jobs[1].is_browser /\ job_state[1].st = "running"
    /\ ~ jobs[2].is_browser /\ Classified(2) /\ ReportsOf(2) # {}

SamePhase(i, k) == jobs[i].is_browser = jobs[k].is_browser

\* C17: within a phase jobs are classified, and their outcomes appended to
\* the report, in job-list order, whatever the order the fetches complete in.
C17_OutcomesInJobOrder ==
    StoreAsLoaded =>
        /\ \A i \in 1..NumJobs, k \in 1..NumJobs :
               i < k /\ SamePhase(i, k) /\ SelectedNow(i) /\ Classified(k) => Classified(i)
        /\ \A a \in (runBase + 1)..Len(report), b \in (runBase + 1)..Len(report) :
               a < b /\ SamePhase(report[a].index, report[b].index)
                   => report[a].index < report[b].index

\* C17 witness: the fetch of job 2 is complete while job 1 still fetches, and
\* nothing is reported yet.
C17_Witness ==
    /\ pc = "phase1"
    /\ job_state[1].st = "running"
    /\ job_state[2].st = "done"
    /\ Len(report) = runBase

\* C18: when the fetch of a job failed, suppressed or reported, every other
\* selected job is still fetched, classified, saved and reported by the end
\* of the run.
C18_FailureContained ==
    pc = "returned" /\ (\E j \in 1..NumJobs : Failed(j)) =>
        \A k \in 1..NumJobs : SelectedNow(k) => Completed(k)

\* C18 witness: job 1 was reported as error, job 2 after it as new.
C18_Witness ==
    /\ pc = "returned"
    /\ NumJobs = 2
    /\ Failed(1) /\ ReportedAs(1, "error")
    /\ Completed(2) /\ job_state[2].verb = "new"

\* the jobs a valid filter f selects among n: index i for a positive entry i,
\* n + i + 1 for a negative one, every job without a filter
ClaimedSelection(f, n) ==
    IF f = <<>> THEN 1..n
    ELSE { k \in 1..n : \E i \in 1..Len(f) :
               \/ f[i] > 0 /\ k = f[i]
               \/ f[i] < 0 /\ k = n + f[i] + 1 }

NoDuplicates(q) == \A a \in 1..Len(q), b \in 1..Len(q) : a # b => q[a] # q[b]

\* job k was fetched, saved or reported in this run
Touched(k) == job_state[k].st # "none" \/ ReportsOf(k) # {} \/ StagedFor(k) # {}

\* run_jobs with a valid filter selects the jobs the filter names
SelectsAsClaimed ==
    \A f \in Filters(NumJobs), w \in 0..MaxWorkersCfg :
        RunJobs(f, w, Probes) /\ ~ HasBadIndex(f, NumJobs)
            => \A k \in 1..NumJobs : SelectedNow(k)' <=> k \in ClaimedSelection(f, NumJobs)

\* each selected job is run once, no other job is fetched, saved or reported
RunsSelectedOnly ==
    StoreAsLoaded =>
        /\ NoDuplicates(todo)
        /\ \A k \in 1..NumJobs : ~ SelectedNow(k) => ~ Touched(k)
        /\ pc = "returned" => \A k \in 1..NumJobs : SelectedNow(k) => Classified(k)

\* C19: with a valid filter the jobs executed are exactly those whose index
\* is a positive entry i or n + i + 1 for a negative entry i; a job selected
\* twice runs once; no unselected job is fetched, saved or reported.
C19_FilterSelects == [][SelectsAsClaimed]_vars /\ []RunsSelectedOnly

\* C19 witness: the filter [1, -2] of two jobs selected job 1 twice; it ran
\* once and job 2 not at all.
C19_Witness ==
    /\ pc = "returned"
    /\ NumJobs = 2 /\ joblist = <<1, 1>>
    /\ Classified(1) /\ Cardinality(ReportsOf(1)) = 1
    /\ ~ Touched(2)

\* how far the processing of a job is
StRank(st) ==
    CASE st = "none" -> 0
      [] st = "pending" -> 1
      [] st = "running" -> 2
      [] st = "done" -> 3
      [] st = "classified" -> 4

\* within a run the processing of a job only advances
OnlyAdvances ==
    now' = now =>
        \A j \in 1..NumJobs : StRank(job_state'[j].st) >= StRank(job_state[j].st)

\* C20: every selected job is fetched exactly once per run, also when the
\* fetch fails: within a run a job never goes back to be fetched again, and
\* at the end of the run every selected job has been fetched and classified.
C20_FetchedOnce ==
    /\ [][OnlyAdvances]_vars
    /\ [](pc = "returned" => \A k \in 1..NumJobs : SelectedNow(k) => Started(k) /\ Classified(k))

\* C20 witness: a run in which the fetch of job 1 failed has ended; its one
\* failure is staged, and job 2 was processed too.
C20_Witness ==
    /\ pc = "returned"
    /\ NumJobs = 2
    /\ Failed(1) /\ Cardinality(StagedFor(1)) = 1 /\ job_state[1].tries = 1
    /\ Classified(2)

\* the error of job j was ignored (job configuration, a browser timing out)
Ignored(j) ==
    /\ Classified(j)
    /\ job_state[j].exception # Null
    /\ job_state[j].error_ignored

\* the failure of job j is below the job's max_tries
Suppressed(j) == Failed(j) /\ TriesThisRun(j) < MaxTriesOrZero(j)

\* the result of job j needs no save: the data is the stored one, or there
\* is none (a 304), and the stored tries are 0 already
NothingToSave(j) ==
    /\ Fetched(j) \/ NotModified(j)
    /\ ~ Ignored(j)
    /\ ReportedAs(j, "unchanged")
    /\ job_state[j].loaded.tries = 0

C22_ProbeFailsBrowserPhaseOnly ==
    pc = "ImportError" =>
        /\ \E b \in 1..NumJobs : jobs[b].is_browser /\ SelectedNow(b)
        /\ \A k \in 1..NumJobs :
               ~ jobs[k].is_browser /\ SelectedNow(k) => Started(k) /\ Completed(k)
        /\ \A b \in 1..NumJobs : jobs[b].is_browser => job_state[b].st = "none"

\* C22 witness: the probe is missing, the browser job 1 was not fetched, the
\* other job was reported as new and its result staged.
C22_Witness ==
    /\ pc = "ImportError"
    /\ NumJobs = 2
    /\ jobs[1].is_browser /\ job_state[1].st = "none"
    /\ Completed(2) /\ job_state[2].verb = "new"
    /\ report # <<>> /\ report[Len(report)] = [index |-> 2, verb |-> "new"]

\* q = floor(a / b)
IsFloor(q, a, b) == q * b <= a /\ a < (q + 1) * b

\* the logical CPU count, 1 when it cannot be determined
CpuCount(c) == IF c = 0 THEN 1 ELSE c

\* C23: the executor of the browser phase has the configured max_workers
\* when one is set; otherwise min(max(floor(virt_mem / 200,000,000), 1), CPU
\* count) workers, which is at least 1 and at most the CPU count for every
\* memory reading, 0 included.
C23_BrowserWorkerCount ==
    pc = "phase2" =>
        IF pool.configured # 0
        THEN pool.size = pool.configured
        ELSE /\ \E q \in 0..5 :
                    /\ IsFloor(q, pool.virt_mem, 200000000)
                    /\ pool.size = Min2(Max2(q, 1), CpuCount(pool.cpu_count))
             /\ 1 <= pool.size
             /\ pool.size <= CpuCount(pool.cpu_count)

\* C23 witness: no override, the probe reads 0 bytes on two CPUs: one worker.
C23_Witness ==
    /\ pc = "phase2"
    /\ pool.configured = 0
    /\ pool.virt_mem = 0 /\ pool.cpu_count = 2
    /\ pool.size = 1
    /\ \E b \in 1..NumJobs : jobs[b].is_browser /\ job_state[b].st = "running"

IsSuffix(a, b) == Len(a) <= Len(b) /\ SubSeq(b, Len(b) - Len(a) + 1, Len(b)) = a

\* every stored snapshot is of a successful run, and none was rewritten
OnlySuccessfulRuns ==
    /\ nsets = 0
    /\ \A g \in Guids : \A i \in 1..Len(db[g]) : db[g][i].tries = 0

\* a commit keeps, of the stored and the staged snapshots of each
\* fingerprint, the most recent ones
CommitEvictsOldest ==
    Commit => \A g \in Guids : IsSuffix(db'[g], ApplyStaged(db, temp)[g])

\* C24: for every fingerprint and every storage engine, after any number of
\* successful committed runs the stored history is no longer than the
\* configured retention limit, and the snapshots evicted are the oldest.
C24_HistoryBounded ==
    /\ [](pc = "committed" /\ OnlySuccessfulRuns
              => \A g \in Guids : Len(db[g]) <= cache_storage.configured)
    /\ [][CommitEvictsOldest]_vars

\* C24 for the stores that were given the limit (sqlite3): the history is
\* never longer than the limit, and the snapshots evicted are the oldest.
C24_BoundedWithLimit ==
    /\ [](cache_storage.max_snapshots > 0
              => \A g \in Guids : Len(db[g]) <= cache_storage.max_snapshots)
    /\ [][CommitEvictsOldest]_vars

\* C25: gc with a set of known fingerprints removes the whole history of
\* every fingerprint that is not in the set and leaves the history of every
\* fingerprint in the set as it is, up to the keep limit (the most recent
\* snapshots stay).
C25_GcRemovesUnknownOnly ==
    [][ \A known \in SUBSET JobGuids, keep \in KeepLimits :
            GcCache(known, keep) =>
                \A g \in Guids :
                    IF g \in known
                    THEN /\ IsSuffix(db'[g], db[g])
                         /\ Len(db'[g]) = Min2(Len(db[g]), keep)
                    ELSE db'[g] = <<>>
      ]_vars

\* C25 witness: two jobs were saved in one committed run; after gc the
\* history of the first is as it was and that of the second is gone.
C25_Witness ==
    /\ pc = "gc"
    /\ NumJobs = 2
    /\ VerbsOf(report) = << "new", "new" >>
    /\ db["g1"] = << Snap(X, now, 0, "") >>
    /\ db["g2"] = <<>>

\* C26: delete_latest on a fingerprint with snapshots removes the most
\* recent one and nothing else, and succeeds; on a fingerprint without
\* snapshots it changes nothing and reports that there is nothing to delete.
\* So k calls succeed on a history of k snapshots and the next one reports
\* nothing to delete.
C26_DeleteLatestOnly ==
    /\ [][ \A g \in JobGuids :
               DeleteSnapshot(g) =>
                   IF db[g] # <<>>
                   THEN /\ pc' = "deleted"
                        /\ db'[g] \o << Load(db, g) >> = db[g]
                        /\ \A h \in Guids \ {g} : db'[h] = db[h]
                   ELSE /\ pc' = "nothing"
                        /\ db' = db
         ]_vars
    /\ [](pc = "nothing" => \E g \in JobGuids : db[g] = <<>>)

\* C26 witness: as in test_delete_snapshot, two runs were committed, the
\* second with another result; the store is empty and the last call reported
\* that there is nothing to delete.
C26_Witness ==
    /\ pc = "nothing"
    /\ NumJobs = 1
    /\ cache_storage.engine = "sqlite3"
    /\ now = MaxRuns - StoreRuns + 2
    /\ VerbsOf(report) = << "new", "changed" >>
    /\ db["g1"] = <<>>

\* the fingerprints a worker is fetching for
BeingFetched == { k \in 1..NumJobs : job_state[k].st = "running" }

\* C27: within a run no fingerprint is worked on twice at the same time:
\* the jobs handed to the executor of a phase have pairwise different
\* fingerprints, whatever the joblist names, and so have the jobs whose
\* fetches run at the same time.
C27_OneWorkerPerFingerprint ==
    InRun =>
        /\ \A a \in 1..Len(todo), b \in 1..Len(todo) :
               a # b => jobs[todo[a]].guid # jobs[todo[b]].guid
        /\ \A i \in BeingFetched, k \in BeingFetched :
               i # k => jobs[i].guid # jobs[k].guid

\* C27 witness: the fetches of the two jobs of a phase run at the same time,
\* each for its own fingerprint.
C27_Witness ==
    /\ pc = "phase1"
    /\ BeingFetched = { 1, 2 }
    /\ jobs[1].guid # jobs[2].guid
    /\ todo = << 1, 2 >>

\* the stored contents with the highest score against word, among those
\* scoring at least the cutoff
TopMatches(j, word) ==
    { x \in GoodMatches(j, word) :
        \A y \in GoodMatches(j, word) : ~ RatioLess(Ratio(x, word), Ratio(y, word)) }

\* the position of the most recent snapshot of job j with the data d
LastStored(j, d) ==
    CHOOSE i \in 1..Len(db[jobs[j].guid]) :
        /\ db[jobs[j].guid][i].data = d
        /\ \A k \in (i + 1)..Len(db[jobs[j].guid]) : db[jobs[j].guid][k].data # d

\* the fetch of job j was classified changed against a history in which
\* several contents tie for the highest score
TiedMatch(j) ==
    /\ StoreAsLoaded /\ Fetched(j)
    /\ job_state[j].verb = "changed"
    /\ Cardinality(StoredData(j)) >= 2
    /\ Cardinality(TopMatches(j, job_state[j].new_data)) >= 2

\* C28: when several snapshots of the history tie for the highest score
\* above the cutoff, the baseline is the most recent of them.
C28_TieBrokenByRecency ==
    \A j \in 1..NumJobs :
        TiedMatch(j) =>
            \A y \in TopMatches(j, job_state[j].new_data) :
                LastStored(j, y) <= LastStored(j, job_state[j].old_data)

\* C28 as the code has it: of the snapshots that tie, the baseline is the
\* one whose data is the greatest string.
C28_TieBrokenByStringOrder ==
    \A j \in 1..NumJobs :
        TiedMatch(j) =>
            /\ job_state[j].old_data \in TopMatches(j, job_state[j].new_data)
            /\ \A y \in TopMatches(j, job_state[j].new_data) :
                   y = job_state[j].old_data \/ StrLess(y, job_state[j].old_data)

\* the version check sits on the only worker of the phase's executor
HoldsOnlyWorker == pool.future /\ pool.size = 1

\* C29: under fair scheduling a run of run_jobs that has started returns, for
\* every size of the worker pool, even if the version check never finishes.
C29_RunReturns == InRun ~> ~ InRun

\* A run returns when the version check does not sit on the only worker of the
\* executor of the phase; when it does, no job is fetched before it is done.
C29_ReturnsWithSpareWorker ==
    /\ (InRun /\ ~ HoldsOnlyWorker) ~> ~ InRun
    /\ [](InRun /\ HoldsOnlyWorker /\ new_release_future # "done"
              => \A k \in 1..NumJobs : InList(k, todo) => job_state[k].st = "pending")

\* a step on which a phase of run_jobs starts: job_runner is entered
PhaseStarts == (pc' \in { "phase1", "phase2" }) /\ pc' # pc

\* a step on which the version check is submitted to the executor of a phase
Submits == pool'.future /\ pool' # pool

\* C30: the version check is submitted at most once per report: by the first
\* phase that has jobs, only if the report holds no future yet; not again by
\* the second phase; never when no job is selected.
C30_SubmittedAtMostOnce ==
    /\ [][Submits => /\ new_release_future = Null
                      /\ new_release_future' = "queued"
                      /\ PhaseStarts
                      /\ todo' # <<>>]_vars
    /\ [][PhaseStarts => (Submits <=> new_release_future = Null)]_vars
    /\ [][new_release_future # Null =>
              /\ new_release_future' # Null
              /\ new_release_future' = "queued" => new_release_future = "queued"]_vars
    /\ [][(pc = "phase1") /\ (pc' = "phase2") =>
              ~ pool'.future /\ new_release_future' = new_release_future]_vars
    /\ [](InRun => new_release_future # Null)
    /\ [](NumJobs = 0 => new_release_future = Null)

\* the second phase runs after the first one submitted the version check
C30_Witness ==
    /\ pc = "phase2"
    /\ ~ pool.future
    /\ new_release_future # Null
    /\ job_state[2].st = "classified"
    /\ job_state[1].st = "running"

\* job j was classified as unchanged, by an exact match or by a not-modified
\* signal, and its tries were 0
UnchangedAtZeroTries(j) ==
    /\ Classified(j)
    /\ ReportedAs(j, "unchanged")
    /\ job_state[j].loaded.tries = 0

C32_IgnoredLeavesNoTrace ==
    /\ [](\A j \in 1..NumJobs :
              StoreAsLoaded /\ Ignored(j)
                  => /\ StagedFor(j) = {}
                     /\ ReportsOf(j) = {}
                     /\ job_state[j].verb = Null
                     /\ Latest(j) = job_state[j].loaded)
    /\ [][(pc = "returned") /\ (pc' = "committed")
              => \A j \in 1..NumJobs :
                     Ignored(j) => db'[jobs[j].guid] = db[jobs[j].guid]]_vars

\* C32 witness: after a failure was stored with one try, an ignored
\* not-modified signal; the run is committed and the store still holds the
\* snapshot with one try.
C32_Witness ==
    /\ pc = "committed"
    /\ Ignored(1)
    /\ job_state[1].exception = "NotModifiedError"
    /\ job_state[1].loaded.tries = 1
    /\ Latest(1) = job_state[1].loaded

\* a step on which the result of job k is classified
Classifies(k) == job_state[k].st = "done" /\ job_state'[k].st = "classified"

\* C33: the classification, save and report steps of a run are taken one job
\* at a time, in job order, by the loop of the thread that called run_jobs: a
\* step of the run that stages a save, appends to the report or classifies a
\* job is the loop body on the oldest job not yet classified, and stages at
\* most one save and appends at most one record, both for that job; a step of
\* a worker does none of these.
C33_OneJobAtATimeInOrder ==
    [][ ~ CallerStep /\ (temp' # temp \/ report' # report
                         \/ \E k \in 1..NumJobs : Classifies(k))
            => /\ InRun
               /\ todo # <<>>
               /\ Classifies(Head(todo))
               /\ \A k \in 1..NumJobs : Classifies(k) => k = Head(todo)
               /\ \A k \in 1..NumJobs : job_state[k].st \in { "pending", "running" }
                                            => job_state'[k] = job_state[k]
               /\ IsPrefix(temp, temp') /\ Len(temp') <= Len(temp) + 1
               /\ \A i \in (Len(temp) + 1)..Len(temp') :
                      temp'[i].guid = jobs[Head(todo)].guid
               /\ IsPrefix(report, report') /\ Len(report') <= Len(report) + 1
               /\ \A i \in (Len(report) + 1)..Len(report') :
                      report'[i].index = Head(todo) ]_vars

\* C33 witness: the loop has classified, saved and reported job 1 while a
\* worker still fetches job 2.
C33_Witness ==
    /\ pc = "phase1"
    /\ todo = << 2 >>
    /\ Classified(1) /\ StagedFor(1) # {} /\ ReportsOf(1) # {}
    /\ job_state[2].st = "running"

\* job k was selected by the last call of run_jobs that ran jobs
RanLast(k) == job_state[k].st # "none"

\* run_jobs with the filter f ends with the joblist it is claimed to leave
LeavesFilterAsClaimed ==
    \A f \in Filters(2) \cup { joblist } :
        RunJobs(f, 0, ProbesLowHigh)
            => IF HasBadIndex(f, NumJobs)
               THEN joblist' = f
               ELSE /\ Len(joblist') = Len(f)
                    /\ \A i \in 1..Len(f) :
                           /\ joblist'[i] \in 1..NumJobs
                           /\ joblist'[i] = IF f[i] > 0 THEN f[i] ELSE NumJobs + f[i] + 1
                    /\ ClaimedSelection(joblist', NumJobs) = ClaimedSelection(f, NumJobs)
                    /\ \A k \in 1..NumJobs :
                           job_state'[k].st # "none" <=> k \in ClaimedSelection(f, NumJobs)

\* run_jobs is called again, after a call that ran jobs, with the joblist
\* that call left: the joblist stays and the same jobs are selected
SecondRunSelectsTheSame ==
    RunJobsAgain /\ (pc \in { "idle", "committed" }) /\ (\E k \in 1..NumJobs : RanLast(k))
        => /\ joblist' = joblist
           /\ pc' = "phase1"
           /\ \A k \in 1..NumJobs : job_state'[k].st # "none" <=> RanLast(k)

\* C34: with an invalid filter run_jobs leaves the configured joblist as it
\* was; with a valid one it replaces it by the list of the equivalent positive
\* indices, and a second run_jobs on the same jobs with the replaced joblist
\* selects exactly the same jobs.
C34_FilterReplacedByPositives ==
    [][LeavesFilterAsClaimed]_vars /\ [][SecondRunSelectsTheSame]_vars

\* C34 witness: the second of two runs that selected the last of two jobs
\* only, run with the joblist [2] the first one left; job 1 was never run.
C34_Witness ==
    /\ pc = "returned"
    /\ now = MaxRuns - FilterRuns + 2
    /\ joblist = << 2 >>
    /\ Classified(2) /\ job_state[2].verb = "unchanged"
    /\ job_state[1].st = "none" /\ db["g1"] = <<>>

\* main() is past the set-up of the store
StoreSetUp == pc \notin { "main", "migrated", "located" }

\* C35: main raises NotImplementedError whenever the database engine is not a
\* supported one, and RuntimeError whenever the engine is redis and the cache
\* location is not a redis URI, for every engine and cache location.
C35_RaisesAsDocumented ==
    StoreSetUp =>
        /\ command_config.database_engine \notin Engines => pc = "NotImplementedError"
        /\ command_config.database_engine = "redis" /\ ~ IsRedisUri(command_config.cache)
               => pc = "RuntimeError"

\* main raises NotImplementedError iff the engine is not a supported one and
\* the cache location is not a redis URI, and RuntimeError iff the engine is
\* redis and the cache location is not a redis URI.
C35_RaisesUnlessRedisUri ==
    StoreSetUp =>
        /\ pc = "NotImplementedError"
               <=> /\ command_config.database_engine \notin Engines
                   /\ ~ IsRedisUri(command_config.cache)
        /\ pc = "RuntimeError"
               <=> /\ command_config.database_engine = "redis"
                   /\ ~ IsRedisUri(command_config.cache)

\* what a call of migrate_from_legacy does to the legacy file old and the new
\* file new: new is made with the contents of old iff old exists and new does
\* not; an existing new file and the legacy file stay as they are
MigratesAsClaimed(old, new) ==
    /\ (IsFile(fs', new) /\ ~ IsFile(fs, new)) <=> (IsFile(fs, old) /\ ~ IsFile(fs, new))
    /\ IsFile(fs, old) /\ ~ IsFile(fs, new) => fs'[new] = fs[old]
    /\ IsFile(fs, new) => IsFile(fs', new) /\ fs'[new] = fs[new]
    /\ IsFile(fs', old) <=> IsFile(fs, old)
    /\ IsFile(fs, old) => fs'[old] = fs[old]

\* C36: migrate_from_legacy copies a legacy file to its new location iff the
\* legacy file exists and the new file does not; it never overwrites a new
\* file and never deletes or changes a legacy file; a second call changes
\* nothing.
C36_MigratesOnlyMissing ==
    /\ [][ (pc' = "migrated")
               => \A i \in 1..4 : MigratesAsClaimed(LegacyFiles("urlwatch")[i], NewFiles[i])
         ]_vars
    /\ [][ (pc = "migrated") => fs' = fs ]_vars

\* C36 witness: the legacy configuration was copied, and the jobs file, which
\* existed next to a legacy one, holds what it held.
C36_Witness ==
    /\ pc = "migrated"
    /\ IsFile(fs, default_config_file)
    /\ fs[default_config_file] = LegacyFiles("urlwatch")[1]
    /\ IsFile(fs, LegacyFiles("urlwatch")[2])
    /\ IsFile(fs, default_jobs_file)
    /\ fs[default_jobs_file] = default_jobs_file

\* the files locate_storage_file is claimed to look for, in order
Candidates(filename, default_path, ext) ==
    LET InDefault(p) == IF p.parent = "." THEN << JoinPath(default_path, p) >> ELSE <<>>
    IN  << filename >> \o InDefault(filename)
        \o (IF ext # "" /\ ext # filename.suffix
            THEN << WithSuffix(filename, ext) >> \o InDefault(WithSuffix(filename, ext))
            ELSE <<>>)

\* the first of the candidates that exists, or the filename
FirstExisting(f, filename, cands) ==
    IF \A i \in 1..Len(cands) : ~ IsFile(f, cands[i]) THEN filename
    ELSE cands[CHOOSE i \in 1..Len(cands) :
                   /\ IsFile(f, cands[i])
                   /\ \A k \in 1..(i - 1) : ~ IsFile(f, cands[k])]

\* C37: locate_storage_file returns the first existing file among the
\* filename as given, the filename in the default directory (only when it has
\* no directory part), and then the same two with the extension (only when an
\* extension is given and differs from the suffix of the filename); when none
\* exists it returns the filename as given.
C37_FirstExistingInOrder ==
    [][ \A ext \in Exts :
            LocateStorageFile(ext)
                => command_config'.config =
                       FirstExisting(fs, command_config.config,
                                     Candidates(command_config.config, config_path, ext))
      ]_vars

\* C37 witness: only jobs.yaml in the default directory exists, and it is the
\* file returned.
C37_Witness ==
    /\ pc = "located"
    /\ DOMAIN fs = { Path(config_path, "jobs", ".yaml") }
    /\ command_config.config = Path(config_path, "jobs", ".yaml")

=============================================================================
